---- MODULE Spec2Model ----
(***************************************************************************)
(* Model of the AgentStream component (src/AgentStream.jsx): the SSE       *)
(* subscription manager, the event log it folds, and the clarify/resume    *)
(* protocol.  React state is one variable per useState cell; each async    *)
(* function invocation that is suspended at an await is one record of      *)
(* `tasks`, holding the values its closure captured when it was invoked.   *)
(*                                                                         *)
(* The second part models the GrabCar page                                 *)
(* (src/synapse-frontend/src/pages/GrabCar.jsx) with the AgentRunner it    *)
(* mounts (src/synapse-frontend/src/components/agent/AgentRunner.jsx): the *)
(* run subscription owned by AgentRunner, the resume subscription owned by *)
(* the page, and the event log both feed.  Spec is AgentStream alone,      *)
(* GrabSpec the GrabCar page alone.                                        *)
(***************************************************************************)
EXTENDS Integers, Sequences, FiniteSets, TLC

VARIABLES
  scenarioText,   \* prop of AgentStream
  events,         \* useState([])  : parsed payloads, in append order
  rawLines,       \* useState([])  : every line handed to handleSSELine
  status,         \* useState("idle")
  error,          \* useState("")
  activeIndex,    \* useState(-1)
  isPlaying,      \* useState(false)
  followLive,     \* useState(true)
  esRef,          \* useRef(null)  : 0 is null, else the id of an EventSource
  sessionId,      \* useState("")
  clarify,        \* useState(null)
  fcmToken,       \* useState("")
  permission,     \* the browser's Notification.permission
  busy,           \* ImageAnswer's useState(false)
  es,             \* every EventSource constructed so far
  tasks,          \* async invocations suspended at an await
  feed,           \* the lines the server may send in this behaviour
  clock,          \* number of lines delivered so far (receipt stamp)
  resetAt,        \* EventSources constructed before the latest start() reset
  doneLen,        \* Len(events) when [DONE] was handled; -1 once a start()
                  \* or a resume has been dispatched since (and initially)
  op,             \* the operation that made the latest step
  \* ---- the GrabCar page and its AgentRunner ----
  pageScenarioText, \* GrabCar's useState("") scenarioText
  pageEvents,       \* GrabCar's useState([]) events
  pageSessionId,    \* GrabCar's useState("") sessionId
  pageClarify,      \* GrabCar's useState(null) clarify
  driverToken,      \* driverToken, passengerToken, customerToken (set together)
  runnerEsRef,      \* AgentRunner's useRef(null): 0 is null
  resumeEsRef,      \* GrabCar's resumeEsRef: 0 is null
  pageES,           \* every EventSource the page has constructed
  pageTasks,        \* async invocations of the page suspended at an await
  pageClock,        \* number of lines delivered to the page
  pageOp            \* the operation of the page that made the latest step

streamVars == <<scenarioText, events, rawLines, status, error, activeIndex,
                isPlaying, followLive, esRef, sessionId, clarify, fcmToken,
                permission, busy, es, tasks, feed, clock, resetAt, doneLen,
                op>>

pageVars == <<pageScenarioText, pageEvents, pageSessionId, pageClarify,
              driverToken, runnerEsRef, resumeEsRef, pageES, pageTasks,
              pageClock, pageOp>>

vars == <<streamVars, pageVars>>

(* ------------------------------ bounds --------------------------------- *)
MaxES == 2        \* EventSources constructed in one behaviour
MaxLines == 2     \* lines delivered in one behaviour
MaxTasks == 2     \* async invocations suspended at the same time
MaxPageES == 3    \* EventSources the GrabCar page constructs in one behaviour
MaxPageLines == 2 \* lines delivered to the GrabCar page in one behaviour
MaxPageTasks == 3 \* async invocations of the page suspended at the same time

(* ------------------------------ values --------------------------------- *)
Token == "tok"

NoData == [set |-> FALSE, session_id |-> "", question_id |-> "",
           expected |-> "", options |-> FALSE, seq |-> 0]

NoPayload == [type |-> "", hasData |-> FALSE, session_id |-> "",
              question_id |-> "", expected |-> "", options |-> FALSE,
              unreg |-> FALSE, val |-> "", seq |-> 0, src |-> 0]

Ev(type, sid, qid, exp, opts, unreg, val) ==
  [type |-> type, hasData |-> TRUE, session_id |-> sid, question_id |-> qid,
   expected |-> exp, options |-> opts, unreg |-> unreg, val |-> val,
   seq |-> 0, src |-> 0]

Json(p) == [kind |-> "json", payload |-> p]

LEmpty == [kind |-> "empty", payload |-> NoPayload]
LDone == [kind |-> "done", payload |-> NoPayload]
LPing == [kind |-> "text", payload |-> NoPayload]
LSession1 == Json(Ev("session", "s1", "", "", FALSE, FALSE, ""))
LSession2 == Json(Ev("session", "s2", "", "", FALSE, FALSE, ""))
LClassA == Json(Ev("classification", "", "", "", FALSE, FALSE, "A"))
LClassB == Json(Ev("classification", "", "", "", FALSE, FALSE, "B"))
LSummaryA == Json(Ev("summary", "", "", "", FALSE, FALSE, "A"))
LSummaryB == Json(Ev("summary", "", "", "", FALSE, FALSE, "B"))
LStep == Json(Ev("step", "", "", "", FALSE, FALSE, ""))
LStepUnreg == Json(Ev("step", "", "", "", FALSE, TRUE, ""))
LClarifyBool == Json(Ev("clarify", "s1", "q1", "boolean", FALSE, FALSE, ""))
LClarifyImg == Json(Ev("clarify", "", "q2", "image[]", FALSE, FALSE, ""))
LClarifyText == Json(Ev("clarify", "", "q3", "string", FALSE, FALSE, ""))
LClarifyNoData == Json([Ev("clarify", "", "", "", FALSE, FALSE, "")
                          EXCEPT !.hasData = FALSE])
LOther == Json(Ev("kpi", "", "", "", FALSE, FALSE, ""))
\* a boolean clarify that also lists options; a clarify without question_id
LClarifyBoolOpts == Json(Ev("clarify", "s1", "q4", "boolean", TRUE, FALSE, ""))
LClarifyNoQid == Json(Ev("clarify", "s1", "", "string", FALSE, FALSE, ""))
\* steps whose data.observation.map is set (val names the map); an event of
\* a type the component does not know, carrying the UNREGISTERED error
LStepMapA == Json(Ev("step", "", "", "", FALSE, FALSE, "mapA"))
LStepMapB == Json(Ev("step", "", "", "", FALSE, FALSE, "mapB"))
LOtherUnreg == Json(Ev("kpi", "", "", "", FALSE, TRUE, ""))

Feeds ==
  { {LSession1, LSession2, LClarifyBool, LStepUnreg, LDone},
    {LClassA, LClassB, LSummaryA, LSummaryB, LStepUnreg},
    {LClarifyBool, LClarifyImg, LClarifyNoData, LClassA, LStep, LDone},
    {LEmpty, LPing, LOther, LClarifyImg, LClarifyText, LStepUnreg},
    {LClarifyBoolOpts, LClarifyNoQid},
    {LStepMapA, LStepMapB, LStep, LOtherUnreg} }

AllLines == UNION Feeds

\* a suspended invocation: where it waits and what its closure captured
NoTask == [kind |-> "", pc |-> "", tok |-> "", sid |-> "", clar |-> NoData,
           ev |-> NoPayload, ans |-> "", inst |-> 0, ref |-> 0]

\* state and the request of an EventSource; prev is the EventSource esRef held
\* when the resume that built it was called, cseq the receipt stamp of the
\* clarify it answers
NoES == [state |-> "none", url |-> "", sid |-> "", qid |-> "", ans |-> "",
         prev |-> 0, cseq |-> 0]

(* ------------------------------ helpers -------------------------------- *)
Remove(s, i) == [j \in 1..(Len(s) - 1) |-> IF j < i THEN s[j] ELSE s[j + 1]]

SelectType(log, t) == SelectSeq(log, LAMBDA e : e.type = t)

Created == {i \in 1..MaxES : es[i].state # "none"}
OpenES == {i \in 1..MaxES : es[i].state = "open"}

(* The React state and the transport objects as one record, so that the    *)
(* handlers compose the way the code calls them.                           *)
Cur ==
  [events |-> events, rawLines |-> rawLines, status |-> status,
   error |-> error, activeIndex |-> activeIndex, isPlaying |-> isPlaying,
   followLive |-> followLive, esRef |-> esRef, sessionId |-> sessionId,
   clarify |-> clarify, fcmToken |-> fcmToken, permission |-> permission,
   busy |-> busy, es |-> es, tasks |-> tasks]

(* ------------------------- derived data (useMemo) ---------------------- *)
steps(log) == SelectType(log, "step")

\* events.find((e) => e.type === "classification")?.data
classification(log) ==
  IF SelectType(log, "classification") = <<>> THEN NoPayload
  ELSE Head(SelectType(log, "classification"))

\* events.find((e) => e.type === "summary")?.data
summaryEvt(log) ==
  IF SelectType(log, "summary") = <<>> THEN NoPayload
  ELSE Head(SelectType(log, "summary"))

\* mapPayload's loop: for (let i = idx; i >= 0; i--) over zero-based steps
RECURSIVE scanMap(_, _)
scanMap(stepList, i) ==
  IF i < 0 THEN ""
  ELSE IF i + 1 \in DOMAIN stepList /\ stepList[i + 1].val # ""
  THEN stepList[i + 1].val
  ELSE scanMap(stepList, i - 1)

\* mapPayload that always scans from the last step
mapPayload_FromLast(stepList, idx) ==
  IF Len(stepList) = 0 THEN ""
  ELSE scanMap(stepList, Len(stepList) - 1)

\* useMemo(..., [steps, activeIndex]); "" is null
mapPayload(stepList, idx) ==
  IF Len(stepList) = 0 THEN ""
  ELSE scanMap(stepList, IF idx >= 0 THEN idx ELSE Len(stepList) - 1)

\* the interval callback: (i) => Math.min((i ?? -1) + 1, steps.length - 1)
tick(i, n) == IF i + 1 < n - 1 THEN i + 1 ELSE n - 1

\* the clarify panel renders ImageAnswer
ImageAnswerMounted(c) == c.set /\ c.expected = "image[]"

(* ------------------ effects that run after every render ---------------- *)
\* the follow-live effect with [followLive] as its only dependency
FollowLiveEffect_OnlyOnToggle(old, new) ==
  IF /\ new.followLive # old.followLive
     /\ new.followLive
     /\ Len(steps(new.events)) > 0
  THEN [new EXCEPT !.activeIndex = Len(steps(new.events)) - 1]
  ELSE new

\* useEffect(..., [steps.length, followLive])
FollowLiveEffect(old, new) ==
  IF /\ \/ new.followLive # old.followLive
        \/ Len(steps(new.events)) # Len(steps(old.events))
     /\ new.followLive
     /\ Len(steps(new.events)) > 0
  THEN [new EXCEPT !.activeIndex = Len(steps(new.events)) - 1]
  ELSE new

\* ImageAnswer keeps `busy` while it stays mounted; a new mount starts with
\* busy = false, and a suspended onClick of an unmounted instance no longer
\* owns the `busy` on screen.
ImageAnswerEffect(old, new) ==
  IF ImageAnswerMounted(old.clarify) /\ ImageAnswerMounted(new.clarify)
  THEN new
  ELSE [new EXCEPT
          !.busy = FALSE,
          !.tasks = [i \in DOMAIN new.tasks |->
                       IF new.tasks[i].kind = "upload"
                       THEN [new.tasks[i] EXCEPT !.inst = 0]
                       ELSE new.tasks[i]]]

Render(old, new) == ImageAnswerEffect(old, FollowLiveEffect(old, new))

Commit(new) ==
  LET r == Render(Cur, new) IN
  /\ events' = r.events
  /\ rawLines' = r.rawLines
  /\ status' = r.status
  /\ error' = r.error
  /\ activeIndex' = r.activeIndex
  /\ isPlaying' = r.isPlaying
  /\ followLive' = r.followLive
  /\ esRef' = r.esRef
  /\ sessionId' = r.sessionId
  /\ clarify' = r.clarify
  /\ fcmToken' = r.fcmToken
  /\ permission' = r.permission
  /\ busy' = r.busy
  /\ es' = r.es
  /\ tasks' = r.tasks

(* ------------------------------ SSE helpers ---------------------------- *)
closeStream(s) ==
  [s EXCEPT
     !.es = IF s.esRef # 0 THEN [s.es EXCEPT ![s.esRef].state = "closed"]
            ELSE s.es,
     !.esRef = 0]

NextES(s) == Cardinality({i \in 1..MaxES : s.es[i].state # "none"}) + 1

wireSSE(s, req) ==
  [s EXCEPT !.es[NextES(s)] = [req EXCEPT !.state = "open"],
            !.esRef = NextES(s)]

Spawn(s, t) == [s EXCEPT !.tasks = Append(s.tasks, t)]
Finish(s, i) == [s EXCEPT !.tasks = Remove(s.tasks, i)]

\* handleSSETail with setClarify run for every event type
handleSSETail_ClearsClarify(s, p) ==
  [s EXCEPT
     !.clarify = IF p.type = "clarify" /\ p.hasData
                 THEN [set |-> TRUE, session_id |-> p.session_id,
                       question_id |-> p.question_id,
                       expected |-> p.expected, options |-> p.options,
                       seq |-> p.seq]
                 ELSE NoData,
     !.status = IF p.type = "clarify" THEN "awaiting" ELSE @,
     !.events = Append(s.events, p)]

\* handleSSELine from "clarify panel" to the end of the try block
handleSSETail(s, p) ==
  LET s1 == IF p.type = "clarify"
            THEN [s EXCEPT
                    !.clarify = IF p.hasData
                                THEN [set |-> TRUE,
                                      session_id |-> p.session_id,
                                      question_id |-> p.question_id,
                                      expected |-> p.expected,
                                      options |-> p.options,
                                      seq |-> p.seq]
                                ELSE NoData,
                    !.status = "awaiting"]
            ELSE s
  IN [s1 EXCEPT !.events = Append(s1.events, p)]

\* handleSSELine without the "[DONE]" comparison: the line goes to JSON.parse
handleSSELine_ParsesDone(s, line, p) ==
  LET s0 == [s EXCEPT !.rawLines = Append(s.rawLines, line)] IN
  IF line.kind # "json" THEN s0
  ELSE
    LET s1 == IF p.type \in {"session", "clarify"} /\ p.hasData
                 /\ p.session_id # ""
              THEN [s0 EXCEPT !.sessionId = p.session_id]
              ELSE s0
    IN IF p.hasData /\ p.unreg
       THEN Spawn(s1, [NoTask EXCEPT !.kind = "line", !.pc = "refresh",
                                     !.ev = p])
       ELSE handleSSETail(s1, p)

\* handleSSELine whose catch reports the parse failure instead of ignoring it
handleSSELine_ParseErrorSurfaces(s, line, p) ==
  LET s0 == [s EXCEPT !.rawLines = Append(s.rawLines, line)] IN
  IF line.kind = "empty" THEN s0
  ELSE IF line.kind = "done"
  THEN [closeStream([s0 EXCEPT !.status = "done"]) EXCEPT
          !.followLive = FALSE]
  ELSE IF line.kind # "json"
  THEN [s0 EXCEPT !.status = "error", !.error = "Bad line"]
  ELSE
    LET s1 == IF p.type \in {"session", "clarify"} /\ p.hasData
                 /\ p.session_id # ""
              THEN [s0 EXCEPT !.sessionId = p.session_id]
              ELSE s0
    IN IF p.hasData /\ p.unreg
       THEN Spawn(s1, [NoTask EXCEPT !.kind = "line", !.pc = "refresh",
                                     !.ev = p])
       ELSE handleSSETail(s1, p)

\* handleSSELine up to its await (or to its end when it does not await)
handleSSELine(s, line, p) ==
  LET s0 == [s EXCEPT !.rawLines = Append(s.rawLines, line)] IN
  IF line.kind = "empty" THEN s0
  ELSE IF line.kind = "done"
  THEN [closeStream([s0 EXCEPT !.status = "done"]) EXCEPT
          !.followLive = FALSE]
  ELSE IF line.kind # "json" THEN s0      \* JSON.parse throws: ignore ping
  ELSE
    LET s1 == IF p.type \in {"session", "clarify"} /\ p.hasData
                 /\ p.session_id # ""
              THEN [s0 EXCEPT !.sessionId = p.session_id]
              ELSE s0
    IN IF p.hasData /\ p.unreg
       THEN Spawn(s1, [NoTask EXCEPT !.kind = "line", !.pc = "refresh",
                                     !.ev = p])
       ELSE handleSSETail(s1, p)

\* es.onerror without setError
onerror_NoMessage(s) == closeStream([s EXCEPT !.status = "error"])

\* es.onerror
onerror(s) ==
  closeStream([s EXCEPT !.status = "error",
                        !.error = "Stream error. Check backend, CORS, token."])

(* ------------------------------ start / stop --------------------------- *)
\* start() without setActiveIndex(-1)
start_KeepsActiveIndex(s, tok) ==
  IF scenarioText = "" THEN s ELSE
  LET s1 == [closeStream(s) EXCEPT
               !.isPlaying = FALSE, !.followLive = TRUE,
               !.events = <<>>, !.rawLines = <<>>, !.error = "",
               !.clarify = NoData, !.sessionId = "", !.status = "streaming"]
  IN Spawn(s1, [NoTask EXCEPT
                  !.kind = "start", !.tok = tok,
                  !.pc = IF s.permission # "granted" THEN "perm"
                         ELSE "token"])

\* start() up to its first await; tok is the fcmToken its closure captured
start(s, tok) ==
  IF scenarioText = "" THEN s ELSE
  LET s1 == [closeStream(s) EXCEPT
               !.activeIndex = -1, !.isPlaying = FALSE, !.followLive = TRUE,
               !.events = <<>>, !.rawLines = <<>>, !.error = "",
               !.clarify = NoData, !.sessionId = "", !.status = "streaming"]
  IN Spawn(s1, [NoTask EXCEPT
                  !.kind = "start", !.tok = tok,
                  !.pc = IF s.permission # "granted" THEN "perm"
                         ELSE "token"])

\* stop that returns early when no stream is referenced
stop_OnlyWhenOpen(s) ==
  IF s.esRef = 0 THEN s
  ELSE [closeStream(s) EXCEPT !.status = "done", !.isPlaying = FALSE,
                              !.followLive = FALSE]

stop(s) ==
  [closeStream(s) EXCEPT !.status = "done", !.isPlaying = FALSE,
                         !.followLive = FALSE]

RunReq == [NoES EXCEPT !.url = "run"]

\* resumeTail without setClarify(null)
resumeTail_KeepsClarify(s, t) ==
  wireSSE(s, [NoES EXCEPT !.url = "answers", !.sid = t.sid,
                          !.qid = t.clar.question_id,
                          !.prev = t.ref, !.cseq = t.clar.seq,
                          !.ans = IF t.clar.question_id # "" THEN t.ans
                                  ELSE ""])

\* resumeWithAnswer from "const ans" to wireSSE; t holds the closure
resumeTail(s, t) ==
  wireSSE([s EXCEPT !.clarify = NoData],
          [NoES EXCEPT !.url = "answers", !.sid = t.sid,
                       !.qid = t.clar.question_id,
                       !.prev = t.ref, !.cseq = t.clar.seq,
                       !.ans = IF t.clar.question_id # "" THEN t.ans
                               ELSE ""])

\* resumeWithAnswer up to its await (or to its end when fcmToken is set)
resumeWithAnswer(s, answer) ==
  LET t == [NoTask EXCEPT !.kind = "resume", !.pc = "token",
                          !.tok = s.fcmToken, !.sid = s.sessionId,
                          !.clar = s.clarify, !.ans = answer,
                          !.ref = s.esRef]
  IN IF s.sessionId = "" THEN [s EXCEPT !.error = "Missing session id"]
     ELSE LET s1 == [closeStream(s) EXCEPT !.status = "streaming"]
          IN IF s.fcmToken # "" THEN resumeTail(s1, t)
             ELSE Spawn(s1, t)

(* --------------------------- what the UI allows ------------------------ *)
\* RunDisabled without the status test
RunDisabled_NoStatusTest == scenarioText = ""

\* <button onClick={start} disabled={!scenarioText || status === "streaming"}>
RunDisabled == scenarioText = "" \/ status = "streaming"

\* <button onClick={stop} disabled={status !== "streaming"}>
StopDisabled == status # "streaming"

\* the clarify panel without its image[] branch
PanelAnswers_NoImageBranch(c) ==
  IF ~c.set THEN {}
  ELSE IF c.options THEN {"opt"}
  ELSE IF c.expected = "boolean" THEN {"yes", "no"}
  ELSE {"text"}

\* the answers the clarify panel can pass to resumeWithAnswer
PanelAnswers(c) ==
  IF ~c.set \/ c.expected = "image[]" THEN {}
  ELSE IF c.options THEN {"opt"}
  ELSE IF c.expected = "boolean" THEN {"yes", "no"}
  ELSE {"text"}

(* -------------------------------- actions ------------------------------ *)
Ghost(name) == /\ op' = name
               /\ UNCHANGED <<scenarioText, feed>>
               /\ UNCHANGED pageVars

\* a click on "Run Scenario"
ClickRun ==
  /\ ~RunDisabled => Len(tasks) < MaxTasks
  /\ IF RunDisabled
     THEN UNCHANGED <<events, rawLines, status, error, activeIndex, isPlaying,
                      followLive, esRef, sessionId, clarify, fcmToken,
                      permission, busy, es, tasks, resetAt, doneLen>>
     ELSE /\ Commit(start(Cur, fcmToken))
          /\ resetAt' = Cardinality(Created)
          /\ doneLen' = -1
  /\ UNCHANGED clock
  /\ Ghost("start")

\* await Notification.requestPermission() in start()
PermissionReturns(i, perm) ==
  /\ i \in DOMAIN tasks
  /\ tasks[i].kind = "start" /\ tasks[i].pc = "perm"
  /\ permission = "denied" => perm = "denied"
  /\ LET s == [Cur EXCEPT !.permission = perm] IN
     IF perm # "granted"
     THEN Commit(Finish([s EXCEPT
                           !.status = "error",
                           !.error = "Enable notifications to receive FCM pushes."],
                        i))
     ELSE Commit([s EXCEPT !.tasks[i].pc = "token"])
  /\ UNCHANGED <<clock, resetAt, doneLen>>
  /\ Ghost("start.permission")

\* afterEnsureFresh whose missing-token branch of start() forgets setStatus
afterEnsureFresh_NoStatus(s, i, r) ==
  LET t == s.tasks[i] IN
  IF t.kind = "mount"
  THEN Finish(IF r = "tok" THEN [s EXCEPT !.fcmToken = Token] ELSE s, i)
  ELSE IF t.kind = "start"
  THEN IF r = "throw"
       THEN Finish([s EXCEPT !.status = "error",
                             !.error = "Failed to start stream"], i)
       ELSE LET liveTok == IF r = "tok" THEN Token ELSE t.tok IN
            IF liveTok = ""
            THEN Finish([s EXCEPT !.error = "Could not obtain FCM token."], i)
            ELSE [s EXCEPT
                    !.fcmToken = IF liveTok # t.tok THEN liveTok ELSE @,
                    !.tasks[i].pc = "url"]
  ELSE IF r = "throw"
       THEN Finish([s EXCEPT !.status = "error",
                             !.error = "Failed to resume"], i)
       ELSE LET liveTok == IF r = "tok" THEN Token ELSE "" IN
            Finish(resumeTail([s EXCEPT
                                 !.fcmToken = IF liveTok # "" /\ liveTok # t.tok
                                              THEN liveTok ELSE @],
                              t),
                   i)

\* the continuation of an await ensureFreshFcmToken(); r is what it returned
afterEnsureFresh(s, i, r) ==
  LET t == s.tasks[i] IN
  IF t.kind = "mount"
  THEN \* ensureFreshFcmToken().then((t) => t && setFcmToken(t))
       Finish(IF r = "tok" THEN [s EXCEPT !.fcmToken = Token] ELSE s, i)
  ELSE IF t.kind = "start"
  THEN IF r = "throw"
       THEN Finish([s EXCEPT !.status = "error",
                             !.error = "Failed to start stream"], i)
       ELSE LET liveTok == IF r = "tok" THEN Token ELSE t.tok IN
            IF liveTok = ""
            THEN Finish([s EXCEPT !.status = "error",
                                  !.error = "Could not obtain FCM token."], i)
            ELSE [s EXCEPT
                    !.fcmToken = IF liveTok # t.tok THEN liveTok ELSE @,
                    !.tasks[i].pc = "url"]
  ELSE \* resumeWithAnswer
       IF r = "throw"
       THEN Finish([s EXCEPT !.status = "error",
                             !.error = "Failed to resume"], i)
       ELSE LET liveTok == IF r = "tok" THEN Token ELSE "" IN
            Finish(resumeTail([s EXCEPT
                                 !.fcmToken = IF liveTok # "" /\ liveTok # t.tok
                                              THEN liveTok ELSE @],
                              t),
                   i)

EnsureFreshReturns(i, r) ==
  /\ i \in DOMAIN tasks
  /\ tasks[i].pc = "token"
  /\ tasks[i].kind = "resume" /\ r # "throw" => Cardinality(Created) < MaxES
  /\ Commit(afterEnsureFresh(Cur, i, r))
  /\ UNCHANGED <<clock, resetAt, doneLen>>
  /\ Ghost(tasks[i].kind \o ".token")

\* await buildRunUrl(...) in start(), then wireSSE(url)
BuildRunUrlReturns(i, ok) ==
  /\ i \in DOMAIN tasks
  /\ tasks[i].kind = "start" /\ tasks[i].pc = "url"
  /\ ok => Cardinality(Created) < MaxES
  /\ IF ok
     THEN Commit(Finish(wireSSE(Cur, RunReq), i))
     ELSE Commit(Finish([Cur EXCEPT !.status = "error",
                                    !.error = "Failed to start stream"], i))
  /\ UNCHANGED <<clock, resetAt, doneLen>>
  /\ Ghost(IF ok THEN "start.wireSSE" ELSE "start.failed")

\* a click on "Stop"
ClickStop ==
  /\ ~StopDisabled
  /\ Commit(stop(Cur))
  /\ UNCHANGED <<clock, resetAt, doneLen>>
  /\ Ghost("stop")

\* es.onmessage of an EventSource that is not closed
Deliver(e, line) ==
  /\ e \in OpenES
  /\ line \in feed
  /\ clock < MaxLines
  /\ line.kind = "json" /\ line.payload.hasData /\ line.payload.unreg
       => Len(tasks) < MaxTasks
  /\ clock' = clock + 1
  /\ Commit(handleSSELine(Cur, line,
                          [line.payload EXCEPT !.seq = clock + 1, !.src = e]))
  /\ doneLen' = IF line.kind = "done" THEN Len(events) ELSE doneLen
  /\ UNCHANGED resetAt
  /\ Ghost("line")

\* await refreshFcmToken() in handleSSELine; r is what it returned
RefreshReturns(i, r) ==
  /\ i \in DOMAIN tasks
  /\ tasks[i].kind = "line"
  /\ LET s == Finish(Cur, i) IN
     IF r = "throw" THEN Commit(s)        \* caught by "ignore ping"
     ELSE Commit(handleSSETail(IF r = "tok" THEN [s EXCEPT !.fcmToken = Token]
                               ELSE s,
                               tasks[i].ev))
  /\ UNCHANGED <<clock, resetAt, doneLen>>
  /\ Ghost("line.refresh")

\* the EventSource reports an error: it gives up (fatal) or it reconnects
EsError(e, fatal) ==
  /\ e \in OpenES
  /\ Commit(onerror(IF fatal THEN [Cur EXCEPT !.es[e].state = "closed"]
                    ELSE Cur))
  /\ UNCHANGED <<clock, resetAt, doneLen>>
  /\ Ghost("onerror")

\* a click on one of the answer buttons of the clarify panel
ClickAnswer(a) ==
  /\ a \in PanelAnswers(clarify)
  /\ sessionId # "" /\ fcmToken = "" => Len(tasks) < MaxTasks
  /\ sessionId # "" /\ fcmToken # "" => Cardinality(Created) < MaxES
  /\ Commit(resumeWithAnswer(Cur, a))
  /\ doneLen' = IF sessionId = "" THEN doneLen ELSE -1
  /\ UNCHANGED <<clock, resetAt>>
  /\ Ghost("resume")

\* a click on "Upload & Continue": ImageAnswer's onClick up to the fetch
ClickUpload ==
  /\ ImageAnswerMounted(clarify)
  /\ ~busy
  /\ Len(tasks) < MaxTasks
  /\ Commit(Spawn([Cur EXCEPT !.busy = TRUE],
                  [NoTask EXCEPT !.kind = "upload", !.pc = "fetch",
                                 !.sid = sessionId, !.clar = clarify,
                                 !.inst = 1]))
  /\ UNCHANGED <<clock, resetAt, doneLen>>
  /\ Ghost("upload")

\* the rest of onSubmit after the upload, then ImageAnswer's finally; r is
\* what fetch and up.json() gave: a body with files, a body without (the
\* reply to a rejected upload; files defaults to []), or an exception
afterUpload(s, i, r) ==
  LET t == s.tasks[i]
      s1 == IF r # "throw"
            THEN wireSSE(closeStream([s EXCEPT !.clarify = NoData,
                                               !.status = "streaming"]),
                         [NoES EXCEPT !.url = "continue", !.sid = t.sid,
                                      !.qid = t.clar.question_id,
                                      !.prev = s.esRef,
                                      !.cseq = t.clar.seq,
                                      !.ans = IF r = "files" THEN "files"
                                              ELSE "[]"])
            ELSE s
  IN Finish([s1 EXCEPT !.busy = IF t.inst = 1 THEN FALSE ELSE @], i)

UploadReturns(i, r) ==
  /\ i \in DOMAIN tasks
  /\ tasks[i].kind = "upload"
  /\ r # "throw" => Cardinality(Created) < MaxES
  /\ Commit(afterUpload(Cur, i, r))
  /\ doneLen' = IF r # "throw" THEN -1 ELSE doneLen
  /\ UNCHANGED <<clock, resetAt>>
  /\ Ghost(IF r # "throw" THEN "upload.wireSSE" ELSE "upload.failed")

(* ----------------------------- specification --------------------------- *)
MountTask == [NoTask EXCEPT !.kind = "mount", !.pc = "token"]

\* an EventSource of the page: who built it and with which token
NoPageES == [state |-> "none", kind |-> "", tok |-> ""]

\* the GrabCar page is not mounted
PageUnmounted ==
  /\ pageScenarioText = ""
  /\ pageEvents = <<>>
  /\ pageSessionId = ""
  /\ pageClarify = NoData
  /\ driverToken = ""
  /\ runnerEsRef = 0
  /\ resumeEsRef = 0
  /\ pageES = [i \in 1..MaxPageES |-> NoPageES]
  /\ pageTasks = <<>>
  /\ pageClock = 0
  /\ pageOp = "none"

Init ==
  /\ PageUnmounted
  /\ scenarioText \in {"", "late delivery"}
  /\ events = <<>>
  /\ rawLines = <<>>
  /\ status = "idle"
  /\ error = ""
  /\ activeIndex = -1
  /\ isPlaying = FALSE
  /\ followLive = TRUE
  /\ esRef = 0
  /\ sessionId = ""
  /\ clarify = NoData
  /\ fcmToken = ""
  /\ permission \in {"default", "granted"}
  /\ busy = FALSE
  /\ es = [i \in 1..MaxES |-> NoES]
  /\ tasks = IF permission = "granted" THEN <<MountTask>> ELSE <<>>
  /\ feed \in Feeds
  /\ clock = 0
  /\ resetAt = 0
  /\ doneLen = -1
  /\ op = "init"

Next ==
  \/ ClickRun
  \/ \E i \in 1..MaxTasks, perm \in {"granted", "denied", "default"} :
       PermissionReturns(i, perm)
  \/ \E i \in 1..MaxTasks, r \in {"tok", "null", "throw"} :
       EnsureFreshReturns(i, r)
  \/ \E i \in 1..MaxTasks, ok \in BOOLEAN : BuildRunUrlReturns(i, ok)
  \/ ClickStop
  \/ \E e \in 1..MaxES, line \in AllLines : Deliver(e, line)
  \/ \E i \in 1..MaxTasks, r \in {"tok", "null", "throw"} :
       RefreshReturns(i, r)
  \/ \E e \in 1..MaxES, fatal \in BOOLEAN : EsError(e, fatal)
  \/ \E a \in {"yes", "no", "opt", "text"} : ClickAnswer(a)
  \/ ClickUpload
  \/ \E i \in 1..MaxTasks, r \in {"files", "error", "throw"} :
       UploadReturns(i, r)

Spec == Init /\ [][Next]_vars

(* ======================= the GrabCar page ============================== *)
\* the AgentStream component is not mounted
StreamUnmounted ==
  /\ scenarioText = ""
  /\ events = <<>>
  /\ rawLines = <<>>
  /\ status = "idle"
  /\ error = ""
  /\ activeIndex = -1
  /\ isPlaying = FALSE
  /\ followLive = TRUE
  /\ esRef = 0
  /\ sessionId = ""
  /\ clarify = NoData
  /\ fcmToken = ""
  /\ permission = "default"
  /\ busy = FALSE
  /\ es = [i \in 1..MaxES |-> NoES]
  /\ tasks = <<>>
  /\ feed = {}
  /\ clock = 0
  /\ resetAt = 0
  /\ doneLen = -1
  /\ op = "none"

\* the lines the server may send to the page
PageLines ==
  {LEmpty, LDone, LPing, LSession1, LClarifyBool, LClarifyImg, LStep}

\* the prompts a user may save; HARDCODED_* stand for one fallback token
Prompts == {"p1", "p2"}
HardToken == "hard"

PageCur ==
  [scenarioText |-> pageScenarioText, events |-> pageEvents,
   sessionId |-> pageSessionId, clarify |-> pageClarify,
   tok |-> driverToken, runnerEsRef |-> runnerEsRef,
   resumeEsRef |-> resumeEsRef, es |-> pageES, tasks |-> pageTasks]

PageCommit(new) ==
  /\ pageScenarioText' = new.scenarioText
  /\ pageEvents' = new.events
  /\ pageSessionId' = new.sessionId
  /\ pageClarify' = new.clarify
  /\ driverToken' = new.tok
  /\ runnerEsRef' = new.runnerEsRef
  /\ resumeEsRef' = new.resumeEsRef
  /\ pageES' = new.es
  /\ pageTasks' = new.tasks

PageCreated == {i \in 1..MaxPageES : pageES[i].state # "none"}
PageOpen == {i \in 1..MaxPageES : pageES[i].state = "open"}

NextPageES(s) == Cardinality({i \in 1..MaxPageES : s.es[i].state # "none"}) + 1

\* an event the page builds itself: { type: "done" }, { type: "text" },
\* { type: "error" }
PageEvent(type, e) == [NoPayload EXCEPT !.type = type, !.src = e]

\* GrabCar's handleEvent, as far as the log, the session and the clarify go
handleEvent(s, p) ==
  LET s1 == [s EXCEPT !.events = Append(s.events, p)]
      s2 == IF p.type = "session" /\ p.hasData /\ p.session_id # ""
            THEN [s1 EXCEPT !.sessionId = p.session_id]
            ELSE s1
  IN IF p.type = "clarify" /\ p.hasData
     THEN [s2 EXCEPT
             !.sessionId = IF p.session_id # "" THEN p.session_id ELSE @,
             !.clarify = [set |-> TRUE, session_id |-> p.session_id,
                          question_id |-> p.question_id,
                          expected |-> p.expected, options |-> p.options,
                          seq |-> p.seq]]
     ELSE s2

\* AgentRunner's effect: the cleanup of its previous run, then its body
runnerEffect(s) ==
  LET s1 == IF s.runnerEsRef # 0
            THEN [s EXCEPT !.es[s.runnerEsRef].state = "closed",
                           !.runnerEsRef = 0]
            ELSE s
      s2 == [s1 EXCEPT !.tasks = Append(s1.tasks, [kind |-> "runnerToken"])]
  IN [s2 EXCEPT !.es[NextPageES(s2)] =
                   [state |-> "open", kind |-> "run", tok |-> s2.tok],
                !.runnerEsRef = NextPageES(s2)]

\* GrabCar's wireResumeSSE
wireResumeSSE(s) ==
  LET s1 == IF s.resumeEsRef # 0
            THEN [s EXCEPT !.es[s.resumeEsRef].state = "closed"]
            ELSE s
  IN [s1 EXCEPT !.es[NextPageES(s1)] =
                   [state |-> "open", kind |-> "resume", tok |-> ""],
                !.resumeEsRef = NextPageES(s1)]

\* GrabCar's resumeWithAnswer
pageResumeWithAnswer(s) ==
  IF s.sessionId = "" \/ ~s.clarify.set THEN s
  ELSE wireResumeSSE([s EXCEPT !.clarify = NoData])

\* PromptModal's onSave, then the render's effects
onSave(s, v) ==
  LET s1 == [s EXCEPT
               !.scenarioText = v, !.events = <<>>, !.clarify = NoData,
               !.sessionId = "",
               !.es = IF s.resumeEsRef # 0
                      THEN [s.es EXCEPT ![s.resumeEsRef].state = "closed"]
                      ELSE s.es,
               !.resumeEsRef = 0]
  IN IF v # s.scenarioText THEN runnerEffect(s1) ELSE s1

PageGhost(name) == /\ pageOp' = name
                   /\ UNCHANGED streamVars

\* GrabCar's mount effect: await ensureFreshFcmToken(), then the three
\* setters; the new token props re-run AgentRunner's effect
PageTokenReturns(i, r) ==
  /\ i \in DOMAIN pageTasks
  /\ pageTasks[i].kind = "pageToken"
  /\ pageScenarioText # "" => Cardinality(PageCreated) < MaxPageES
  /\ LET s == [PageCur EXCEPT !.tasks = Remove(pageTasks, i),
                              !.tok = IF r = "tok" THEN Token ELSE HardToken]
     IN PageCommit(IF pageScenarioText # "" THEN runnerEffect(s) ELSE s)
  /\ UNCHANGED pageClock
  /\ PageGhost("token")

\* Save in the prompt modal
SavePrompt(v) ==
  /\ v # pageScenarioText
       => /\ Cardinality(PageCreated) < MaxPageES
          /\ Len(pageTasks) < MaxPageTasks
  /\ PageCommit(onSave(PageCur, v))
  /\ UNCHANGED pageClock
  /\ PageGhost("save")

\* es.onmessage of an EventSource built by AgentRunner
RunnerDeliver(e, line) ==
  /\ e \in PageOpen /\ pageES[e].kind = "run"
  /\ line \in PageLines
  /\ pageClock < MaxPageLines
  /\ pageClock' = pageClock + 1
  /\ PageCommit(
       IF line.kind = "empty" THEN PageCur
       ELSE IF line.kind = "done"
       THEN handleEvent(PageCur, PageEvent("done", e))
       ELSE IF line.kind # "json"
       THEN handleEvent(PageCur, PageEvent("text", e))
       ELSE handleEvent(PageCur, [line.payload EXCEPT !.seq = pageClock + 1,
                                                      !.src = e]))
  /\ PageGhost("line")

\* es.onmessage of an EventSource built by wireResumeSSE
ResumeDeliver(e, line) ==
  /\ e \in PageOpen /\ pageES[e].kind = "resume"
  /\ line \in PageLines
  /\ pageClock < MaxPageLines
  /\ pageClock' = pageClock + 1
  /\ PageCommit(
       IF line.kind = "empty" THEN PageCur
       ELSE IF line.kind = "done"
       THEN [PageCur EXCEPT !.es[e].state = "closed", !.resumeEsRef = 0]
       ELSE IF line.kind # "json" THEN PageCur
       ELSE handleEvent(PageCur, [line.payload EXCEPT !.seq = pageClock + 1,
                                                      !.src = e]))
  /\ PageGhost("line")

\* es.onerror of an EventSource built by AgentRunner
RunnerError(e) ==
  /\ e \in PageOpen /\ pageES[e].kind = "run"
  /\ PageCommit([handleEvent(PageCur, PageEvent("error", e)) EXCEPT
                   !.es[e].state = "closed"])
  /\ UNCHANGED pageClock
  /\ PageGhost("error")

\* es.onerror of an EventSource built by wireResumeSSE
ResumeError(e) ==
  /\ e \in PageOpen /\ pageES[e].kind = "resume"
  /\ PageCommit([PageCur EXCEPT !.es[e].state = "closed", !.resumeEsRef = 0])
  /\ UNCHANGED pageClock
  /\ PageGhost("error")

\* the await ensureFreshFcmToken() that AgentRunner's effect starts
RunnerTokenReturns(i, threw) ==
  /\ i \in DOMAIN pageTasks
  /\ pageTasks[i].kind = "runnerToken"
  /\ LET s == [PageCur EXCEPT !.tasks = Remove(pageTasks, i)]
     IN PageCommit(IF threw THEN handleEvent(s, PageEvent("error", 0)) ELSE s)
  /\ UNCHANGED pageClock
  /\ PageGhost("runnerToken")

\* an answer button or Send of the ClarifyModal
PageAnswer ==
  /\ pageClarify.set /\ pageClarify.expected # "image[]"
  /\ pageSessionId # "" => Cardinality(PageCreated) < MaxPageES
  /\ PageCommit(pageResumeWithAnswer(PageCur))
  /\ UNCHANGED pageClock
  /\ PageGhost("answer")

\* Upload & Continue of the ClarifyModal: uploadImagesAndResume to its fetch
PageUpload ==
  /\ pageClarify.set /\ pageClarify.expected = "image[]"
  /\ \A i \in DOMAIN pageTasks : pageTasks[i].kind # "upload"
  /\ pageSessionId # "" => Len(pageTasks) < MaxPageTasks
  /\ PageCommit(IF pageSessionId = "" THEN PageCur
                ELSE [PageCur EXCEPT
                        !.tasks = Append(pageTasks, [kind |-> "upload"])])
  /\ UNCHANGED pageClock
  /\ PageGhost("upload")

\* uploadImagesAndResume after its fetch
PageUploadReturns(i, r) ==
  /\ i \in DOMAIN pageTasks
  /\ pageTasks[i].kind = "upload"
  /\ r # "throw" => Cardinality(PageCreated) < MaxPageES
  /\ LET s == [PageCur EXCEPT !.tasks = Remove(pageTasks, i)]
     IN PageCommit(IF r = "throw" THEN s
                   ELSE wireResumeSSE([s EXCEPT !.clarify = NoData]))
  /\ UNCHANGED pageClock
  /\ PageGhost("upload.returns")

\* the close button of the ClarifyModal
CloseClarify ==
  /\ pageClarify.set
  /\ PageCommit([PageCur EXCEPT !.clarify = NoData])
  /\ UNCHANGED pageClock
  /\ PageGhost("close")

\* the page after its mount effects: the stored prompt, if any, is the
\* scenario and AgentRunner has opened its first subscription without tokens
GrabInit ==
  /\ StreamUnmounted
  /\ pageScenarioText \in {"", "p1"}
  /\ pageEvents = <<>>
  /\ pageSessionId = ""
  /\ pageClarify = NoData
  /\ driverToken = ""
  /\ runnerEsRef = IF pageScenarioText = "" THEN 0 ELSE 1
  /\ resumeEsRef = 0
  /\ pageES = [i \in 1..MaxPageES |->
                 IF i = 1 /\ pageScenarioText # ""
                 THEN [state |-> "open", kind |-> "run", tok |-> ""]
                 ELSE NoPageES]
  /\ pageTasks = IF pageScenarioText = "" THEN <<[kind |-> "pageToken"]>>
                 ELSE <<[kind |-> "pageToken"], [kind |-> "runnerToken"]>>
  /\ pageClock = 0
  /\ pageOp = "mount"

GrabNext ==
  \/ \E i \in 1..MaxPageTasks, r \in {"tok", "null", "throw"} :
       PageTokenReturns(i, r)
  \/ \E v \in Prompts : SavePrompt(v)
  \/ \E e \in 1..MaxPageES, line \in PageLines : RunnerDeliver(e, line)
  \/ \E e \in 1..MaxPageES, line \in PageLines : ResumeDeliver(e, line)
  \/ \E e \in 1..MaxPageES : RunnerError(e)
  \/ \E e \in 1..MaxPageES : ResumeError(e)
  \/ \E i \in 1..MaxPageTasks, threw \in BOOLEAN : RunnerTokenReturns(i, threw)
  \/ PageAnswer
  \/ PageUpload
  \/ \E i \in 1..MaxPageTasks, r \in {"files", "error", "throw"} :
       PageUploadReturns(i, r)
  \/ CloseClarify

GrabSpec == GrabInit /\ [][GrabNext]_vars

(* ============================ claims =================================== *)

(* C1: at most one EventSource that has been opened and not yet closed     *)
(* exists at any time, over every interleaving of start(), the resumes,    *)
(* stop() and the stream callbacks.                                        *)
C1_SingleOpenSubscription == Cardinality(OpenES) <= 1

(* C2: every start() is a fresh session: when start() opens its            *)
(* subscription the event log, the raw-line log, the pending clarify, the  *)
(* session id and the error string are empty, and the log never holds an   *)
(* event of a subscription that was built before the reset.                *)
C2_FreshSession ==
  /\ op = "start.wireSSE" =>
       /\ events = <<>> /\ rawLines = <<>> /\ ~clarify.set
       /\ sessionId = "" /\ error = ""
  /\ \A k \in 1..Len(events) : events[k].src > resetAt

(* C3: after [DONE] has been handled the status is done and the event log  *)
(* does not change until the next start() or resume.                       *)
C3_DoneIsTerminal ==
  doneLen >= 0 => status = "done" /\ Len(events) = doneLen

(* C4: once the session id is non-empty it changes only when start()       *)
(* resets it; a later session or clarify event does not change it.         *)
C4_SessionIdFirstWriteWins ==
  [][sessionId # "" /\ sessionId' # sessionId
       => op' = "start" /\ sessionId' = ""]_vars

(* C5: for every subscription, the events of the log are in the order in   *)
(* which their lines were delivered.                                       *)
C5_LogInArrivalOrder ==
  \A j, k \in 1..Len(events) :
    j < k /\ events[j].src = events[k].src => events[j].seq < events[k].seq

(* C6: a click on Run Scenario while the status is streaming is a no-op:   *)
(* the event log and the open subscription are unchanged.                  *)
C6_StartWhileStreamingIsNoOp ==
  [][op' = "start" /\ status = "streaming"
       => events' = events /\ es' = es /\ esRef' = esRef]_vars

\* Run Scenario was clicked while a subscription was open and had delivered
C6_Witness ==
  /\ op = "start" /\ status = "streaming"
  /\ esRef # 0 /\ es[esRef].state = "open" /\ Len(events) > 0

(* C7: once resumeWithAnswer has built the resumed subscription, the       *)
(* clarify it answered is no longer pending and the subscription esRef     *)
(* held when it was called is closed; and no resumeWithAnswer is suspended *)
(* at its await while the clarify it answers is still on the panel.        *)
C7_ClarifyClearedBeforeResumedEvents ==
  /\ \A e \in Created :
       es[e].url = "answers" =>
         /\ ~(clarify.set /\ clarify.seq = es[e].cseq)
         /\ es[e].prev # 0 => es[es[e].prev].state = "closed"
  /\ \A i \in DOMAIN tasks :
       tasks[i].kind = "resume" =>
         ~(clarify.set /\ clarify.seq = tasks[i].clar.seq)

\* an event of a subscription opened by resumeWithAnswer has been handled
C7_Witness ==
  \E k \in 1..Len(events) :
    /\ es[events[k].src].url = "answers"
    /\ es[events[k].src].prev # 0
    /\ es[events[k].src].cseq > 0

(* C8: with no session id known, resumeWithAnswer and the image-upload     *)
(* resume fail with the missing-session error and do nothing else: no      *)
(* subscription closed or opened, no upload sent, status, pending clarify  *)
(* and event log unchanged.                                                *)
C8_ResumeWithoutSessionDoesNothing ==
  [][sessionId = "" /\ op' \in {"resume", "upload"}
       => /\ error' = "Missing session id"
          /\ UNCHANGED <<es, esRef, tasks, status, clarify, events>>]_vars

(* C9: a pending clarify becomes null only when a resume request is        *)
(* dispatched.                                                             *)
C9_ClarifyClearedOnlyByResume ==
  [][clarify.set /\ ~clarify'.set
       => op' \in {"resume", "resume.token", "upload.wireSSE"}]_vars

(* C9 as amended: a pending clarify stays non-null across every line that  *)
(* is not a clarify event, and becomes null only when a resume request is  *)
(* dispatched, when start() resets the run, or when a clarify event        *)
(* without data is handled.                                                *)
C9_ClarifyClearedOnlyByResumeOrReset ==
  [][clarify.set /\ ~clarify'.set
       => \/ op' \in {"resume", "resume.token", "upload.wireSSE", "start"}
          \/ /\ op' \in {"line", "line.refresh"}
             /\ events' # <<>>
             /\ Len(events') = Len(events) + 1
             /\ events'[Len(events')].type = "clarify"
             /\ ~events'[Len(events')].hasData]_vars

\* a clarify is pending and an event that is not a clarify arrived after it
C9_Witness ==
  /\ clarify.set
  /\ \E k \in 1..Len(events) :
       events[k].type # "clarify" /\ events[k].seq > clarify.seq

(* C10: the classification shown is the most recent classification event   *)
(* of the log and the summary shown is the most recent summary event.      *)
C10_LastWriteWins ==
  /\ SelectType(events, "classification") # <<>> =>
       classification(events) =
         SelectType(events, "classification")
           [Len(SelectType(events, "classification"))]
  /\ SelectType(events, "summary") # <<>> =>
       summaryEvt(events) =
         SelectType(events, "summary")[Len(SelectType(events, "summary"))]

(* C11: whenever the status is awaiting, no EventSource is open.           *)
C11_AwaitingHoldsNoOpenES == status = "awaiting" => OpenES = {}

(* C12: es.onerror leaves the status error and the reference cleared, and  *)
(* from then on, until start() is invoked or a resume is dispatched, the   *)
(* status stays error and no subscription is opened.                       *)
C12_ErrorIsTerminal ==
  [][/\ op' = "onerror" => status' = "error" /\ esRef' = 0
     /\ /\ status = "error"
        /\ error = "Stream error. Check backend, CORS, token."
        /\ op' \notin {"start", "resume", "resume.token", "upload.wireSSE"}
        => status' = "error" /\ OpenES' \subseteq OpenES]_vars

(* C13: handling the line [DONE] sets the status to done, closes the       *)
(* EventSource esRef holds, clears esRef and appends nothing to the log.   *)
C13_DoneClosesWithoutAppending ==
  [][op' = "line" /\ rawLines' = Append(rawLines, LDone)
       => /\ status' = "done"
          /\ esRef' = 0
          /\ esRef # 0 => es'[esRef].state = "closed"
          /\ events' = events]_vars

\* [DONE] has just been handled after at least one event, and nothing is open
C13_Witness ==
  /\ op = "line" /\ rawLines # <<>> /\ rawLines[Len(rawLines)] = LDone
  /\ status = "done" /\ esRef = 0 /\ OpenES = {} /\ Len(events) > 0

(* C14: stop() in any state closes the EventSource esRef holds and sets    *)
(* the status to done; stop() after stop() changes nothing more; and       *)
(* stop() and closeStream on a transport that has already closed give the  *)
(* same state as on an open one, with no error recorded.                   *)
C14_StopIdempotent ==
  LET s1 == stop(Cur)
      dead == IF esRef # 0 THEN [Cur EXCEPT !.es[esRef].state = "closed"]
              ELSE Cur
  IN /\ s1.status = "done" /\ s1.esRef = 0
     /\ esRef # 0 => s1.es[esRef].state = "closed"
     /\ s1.error = error
     /\ stop(s1) = s1
     /\ stop(dead) = s1
     /\ closeStream(dead) = closeStream(Cur)
     /\ closeStream(closeStream(Cur)) = closeStream(Cur)

\* Stop was clicked on an open subscription that had delivered events
C14_Witness ==
  /\ op = "stop" /\ status = "done" /\ esRef = 0
  /\ \E e \in Created : es[e].state = "closed"
  /\ Len(events) > 0

(* C15: a line that is neither JSON nor [DONE] changes no state of the     *)
(* component.                                                              *)
C15_BadLineChangesNothing ==
  [][/\ op' = "line"
     /\ rawLines' # <<>>
     /\ rawLines'[Len(rawLines')] \in {LPing, LEmpty}
     => UNCHANGED <<events, rawLines, status, error, activeIndex, isPlaying,
                    followLive, esRef, sessionId, clarify, fcmToken,
                    permission, busy, es, tasks>>]_vars

(* C15 as amended: a line that is neither JSON nor [DONE] is appended to   *)
(* the raw-line log and changes nothing else: no event, no error, no       *)
(* status, no subscription.                                                *)
C15_BadLineOnlyLogged ==
  [][/\ op' = "line"
     /\ rawLines' # <<>>
     /\ rawLines'[Len(rawLines')] \in {LPing, LEmpty}
     => /\ rawLines' = Append(rawLines, rawLines'[Len(rawLines')])
        /\ UNCHANGED <<events, status, error, activeIndex, isPlaying,
                       followLive, esRef, sessionId, clarify, fcmToken,
                       permission, busy, es, tasks>>]_vars

\* the text ping has just been handled on a stream that had delivered an event
C15_Witness ==
  /\ op = "line" /\ rawLines # <<>> /\ rawLines[Len(rawLines)] = LPing
  /\ status = "streaming" /\ error = "" /\ Len(events) > 0
  /\ esRef # 0 /\ es[esRef].state = "open"

(* C16: an event that carries the UNREGISTERED error leaves the            *)
(* subscriptions open, and when refreshFcmToken settles (token, null or    *)
(* exception) the event is appended to the log, once.                      *)
C16_UnregisteredEventAppendedOnce ==
  [][/\ op' = "line" /\ Len(tasks') > Len(tasks) => OpenES' = OpenES
     /\ op' = "line.refresh"
          => /\ OpenES' = OpenES
             /\ Len(events') = Len(events) + 1
             /\ \E i \in DOMAIN tasks :
                  /\ tasks[i].kind = "line"
                  /\ [events'[Len(events')] EXCEPT !.seq = 0, !.src = 0]
                       = [tasks[i].ev EXCEPT !.seq = 0, !.src = 0]]_vars

(* C17: every resume request (the URL of a subscription opened by          *)
(* resumeWithAnswer or by the image resume) carries the current session    *)
(* id, non-empty, the question_id of the clarify it answers, and the       *)
(* answer.                                                                 *)
C17_ResumeCarriesSessionAndAnswer ==
  [][\A e \in 1..MaxES :
       es[e].state = "none" /\ es'[e].state # "none" /\ es'[e].url # "run"
       => /\ es'[e].sid # "" /\ es'[e].sid = sessionId
          /\ es'[e].ans # ""
          /\ \E c \in {clarify} \cup {tasks[i].clar : i \in DOMAIN tasks} :
               /\ c.set /\ c.seq = es'[e].cseq
               /\ c.question_id # "" /\ es'[e].qid = c.question_id]_vars

(* C18: a resume request that answers a clarify whose expected type is     *)
(* boolean carries the answer yes or the answer no.                        *)
C18_BooleanAnswerIsYesOrNo ==
  [][\A e \in 1..MaxES :
       /\ es[e].state = "none" /\ es'[e].state # "none" /\ es'[e].url # "run"
       /\ \E c \in {clarify} \cup {tasks[i].clar : i \in DOMAIN tasks} :
            c.set /\ c.seq = es'[e].cseq /\ c.expected = "boolean"
       => es'[e].ans \in {"yes", "no"}]_vars

(* C19: a resume request that answers a clarify whose expected type is     *)
(* image[] is built only by the continuation of an evidence upload sent    *)
(* for the same session id and question_id, and its answer is the list of  *)
(* files that upload returned.                                             *)
C19_ImageResumeOnlyAfterUpload ==
  [][\A e \in 1..MaxES :
       /\ es[e].state = "none" /\ es'[e].state # "none" /\ es'[e].url # "run"
       /\ \E c \in {clarify} \cup {tasks[i].clar : i \in DOMAIN tasks} :
            c.set /\ c.seq = es'[e].cseq /\ c.expected = "image[]"
       => /\ op' = "upload.wireSSE"
          /\ es'[e].url = "continue" /\ es'[e].ans \in {"files", "[]"}
          /\ Len(tasks') = Len(tasks) - 1
          /\ \E i \in DOMAIN tasks :
               /\ tasks[i].kind = "upload" /\ tasks[i].pc = "fetch"
               /\ tasks[i].sid = es'[e].sid
               /\ tasks[i].clar.seq = es'[e].cseq
               /\ tasks[i].clar.question_id = es'[e].qid]_vars

\* the upload for an image[] clarify returned and its resume is open
C19_Witness ==
  /\ op = "upload.wireSSE" /\ esRef # 0
  /\ es[esRef].state = "open" /\ es[esRef].url = "continue"
  /\ es[esRef].ans = "files" /\ es[esRef].qid = "q2"
  /\ ~clarify.set /\ status = "streaming"

(* C20: the status is one of idle, streaming, awaiting, done, error, and   *)
(* whenever it is error the error string is not empty.                     *)
C20_StatusAndErrorString ==
  /\ status \in {"idle", "streaming", "awaiting", "done", "error"}
  /\ status = "error" => error # ""

\* an EventSource has just reported an error
C20_Witness == op = "onerror" /\ status = "error" /\ error # "" /\ esRef = 0

(* C23: for the step list of every reachable state and every active index  *)
(* i of it, mapPayload is the observation.map of the step with the         *)
(* greatest index j <= i that has one, none when no such step exists, and  *)
(* a negative index scans from the last step.                              *)
C23_MapPayloadIsLatestAtOrBefore ==
  LET st == steps(events)
      n == Len(st)
  IN \A i \in -1..(n - 1) :
       LET top == IF i >= 0 THEN i ELSE n - 1
           cand == {j \in 0..top : st[j + 1].val # ""}
       IN IF cand = {} THEN mapPayload(st, i) = ""
          ELSE mapPayload(st, i)
                 = st[(CHOOSE j \in cand : \A k \in cand : k <= j) + 1].val

\* the active step has no map and the scan went back to an earlier step
C23_Witness ==
  /\ Len(steps(events)) = 2 /\ activeIndex = 1
  /\ steps(events)[1].val = "mapA" /\ steps(events)[2].val = ""
  /\ mapPayload(steps(events), activeIndex) = "mapA"

(* C24: while follow-live is on and at least one step exists, the active   *)
(* index is steps.length - 1, also for steps of a resumed subscription.    *)
C24_FollowLiveTracksLastStep ==
  followLive /\ Len(steps(events)) > 0
    => activeIndex = Len(steps(events)) - 1

\* a step arrived through a resumed subscription while follow-live was on
C24_Witness ==
  /\ followLive /\ activeIndex = Len(steps(events)) - 1
  /\ \E k \in 1..Len(events) :
       events[k].type = "step" /\ es[events[k].src].url = "answers"

(* C25: a replay tick advances the active index by exactly one until it is *)
(* the index of the last step and leaves it there afterwards; and replay   *)
(* can be entered: when steps exist and follow-live is off, an operation   *)
(* of the component turns isPlaying on.                                    *)
C25_ReplayAdvancesAndIsReachable ==
  /\ \A i \in -1..(Len(steps(events)) - 1) :
       tick(i, Len(steps(events)))
         = IF i < Len(steps(events)) - 1 THEN i + 1 ELSE i
  /\ Len(steps(events)) > 0 /\ ~followLive => ENABLED (Next /\ isPlaying')

(* C26: a parsed event whose type the component does not know is appended  *)
(* to the event log, at once or when its handler resumes, and never        *)
(* dropped.                                                                *)
C26_UnknownTypeIsAppended ==
  [][/\ /\ op' = "line" /\ Len(tasks') = Len(tasks)
        /\ rawLines' # <<>>
        /\ rawLines'[Len(rawLines')].kind = "json"
        /\ rawLines'[Len(rawLines')].payload.type \notin
             {"session", "classification", "step", "clarify", "summary",
              "done", "error"}
        => /\ Len(events') = Len(events) + 1
           /\ events'[Len(events')].type
                = rawLines'[Len(rawLines')].payload.type
     /\ \A i \in DOMAIN tasks :
          /\ op' = "line.refresh" /\ tasks[i].kind = "line"
          /\ tasks' = Remove(tasks, i)
          /\ tasks[i].ev.type \notin
               {"session", "classification", "step", "clarify", "summary",
                "done", "error"}
          => events' = Append(events, tasks[i].ev)]_vars

(* C27: whenever the status is idle, done or error, no EventSource is      *)
(* open.                                                                   *)
C27_NoOpenStreamWhenNotRunning ==
  status \in {"idle", "done", "error"} => OpenES = {}

(* C28: -1 <= activeIndex <= steps.length - 1 in every reachable state,    *)
(* and a replay tick keeps it there.                                       *)
C28_ActiveIndexInRange ==
  /\ -1 <= activeIndex /\ activeIndex <= Len(steps(events)) - 1
  /\ -1 <= tick(activeIndex, Len(steps(events)))
  /\ tick(activeIndex, Len(steps(events))) <= Len(steps(events)) - 1

\* two steps have arrived and the second is the active one
C28_Witness == Len(steps(events)) = 2 /\ activeIndex = 1

(* C29: a start() that ends at a refused permission, at a missing FCM      *)
(* token or at a failing buildRunUrl leaves status error and a non-empty   *)
(* error string, and opens no subscription.                                *)
C29_FailedStartEndsInError ==
  [][/\ op' \in {"start.permission", "start.token", "start.failed"}
     /\ Len(tasks') < Len(tasks)
     => /\ status' = "error" /\ error' # ""
        /\ es' = es /\ esRef' = esRef]_vars

\* start() has just failed for want of an FCM token
C29_Witness ==
  /\ op = "start.token" /\ status = "error"
  /\ error = "Could not obtain FCM token." /\ OpenES = {}

(* C30: a failed evidence upload (an exception, or a reply that carries no *)
(* files) leaves the pending clarify, the status, the event log and the    *)
(* subscriptions as they were and makes the upload control usable again;   *)
(* and no upload is submitted while one is in flight.                      *)
C30_FailedUploadChangesNothing ==
  [][/\ \/ op' = "upload.failed"
        \/ op' = "upload.wireSSE" /\ esRef' # 0 /\ es'[esRef'].ans = "[]"
        => /\ clarify' = clarify /\ status' = status /\ events' = events
           /\ es' = es /\ esRef' = esRef
           /\ ImageAnswerMounted(clarify') => ~busy'
     /\ op' = "upload"
        => \A i \in DOMAIN tasks : tasks[i].kind # "upload"]_vars

(* C21: on the GrabCar page, whenever AgentRunner opens a run subscription *)
(* the event log is empty, the log never holds events of two run           *)
(* subscriptions, and saving a prompt opens a new run subscription.        *)
C21_RunStartsWithEmptyLog ==
  [][/\ \A e \in 1..MaxPageES :
          pageES[e].state = "none" /\ pageES'[e].kind = "run"
          => pageEvents' = <<>>
     /\ \A j, k \in 1..Len(pageEvents') :
          /\ pageEvents'[j].src # 0 /\ pageEvents'[k].src # 0
          /\ pageES'[pageEvents'[j].src].kind = "run"
          /\ pageES'[pageEvents'[k].src].kind = "run"
          => pageEvents'[j].src = pageEvents'[k].src
     /\ pageOp' = "save"
          => \E e \in 1..MaxPageES :
               pageES[e].state = "none" /\ pageES'[e].kind = "run"]_vars

(* C22: on the GrabCar page, when a resume subscription is opened no run   *)
(* subscription of AgentRunner is open, and at most one subscription of    *)
(* the page is open at any time.                                           *)
C22_ResumeClosesRun ==
  [][/\ \A e \in 1..MaxPageES :
          pageES[e].state = "none" /\ pageES'[e].kind = "resume"
          => \A f \in 1..MaxPageES :
               pageES'[f].kind = "run" => pageES'[f].state # "open"
     /\ Cardinality({f \in 1..MaxPageES : pageES'[f].state = "open"}) <= 1]_vars

====
